---- MODULE Spec2Model ----
(***************************************************************************)
(* SpartaCustomResource (src/main.go): a CloudFormation custom resource    *)
(* provider, SpartaHelloWorldResource, registered under the type           *)
(* "Custom::sparta::HelloWorldResource", its three lifecycle methods       *)
(* Create / Update / Delete, and the service decorator that adds the       *)
(* custom-resource invocation to the CloudFormation template.              *)
(*                                                                         *)
(* The lifecycle methods, the provider factory and the decorator are       *)
(* translated from src/main.go.  The dispatch runtime around the methods   *)
(* (Decode, Select, Wrap, Emit) is not part of the repository's source: it *)
(* is modelled from sections 4.2-4.4 of the specification.                 *)
(***************************************************************************)
EXTENDS Naturals, Sequences, FiniteSets, TLC

(***************************************************************************)
(* Bounds                                                                  *)
(***************************************************************************)
\* number of dispatch invocations that may be in flight at once
NumInvocations == 2

Invocations == 1..NumInvocations
\* addresses of handler instances; 0 is the nil pointer
Addresses == 1..NumInvocations

(***************************************************************************)
(* Values                                                                  *)
(***************************************************************************)
spartaHelloWorldResourceType == "Custom::sparta::HelloWorldResource"

\* *gocf.StringExpr: the nil pointer, a literal, or an intrinsic function
NilExpr == [isNil |-> TRUE, Literal |-> "", Func |-> ""]
StringLit(s) == [isNil |-> FALSE, Literal |-> s, Func |-> ""]
FuncExpr(f) == [isNil |-> FALSE, Literal |-> "", Func |-> f]

\* SpartaHelloWorldResource{}: both embedded structs zero-valued
EmptyHandler == [ServiceToken |-> NilExpr, Message |-> NilExpr]

\* event.ResourceProperties (json.RawMessage), by the shape of its JSON text:
\* not a JSON object at all, or an object whose "Message" member is absent,
\* null, a string, an intrinsic-function object, or a number.
MessageStrings == {"hi", "", "Custom resource activated!"}
MessageMembers ==
    {[tag |-> "absent", val |-> ""], [tag |-> "null", val |-> ""],
     [tag |-> "func", val |-> "Ref"], [tag |-> "number", val |-> "5"]}
    \cup {[tag |-> "string", val |-> s] : s \in MessageStrings}
MalformedProperties == [shape |-> "malformed", Message |-> [tag |-> "absent", val |-> ""]]
ObjectProperties(m) == [shape |-> "object", Message |-> m]
AllProperties == {MalformedProperties} \cup {ObjectProperties(m) : m \in MessageMembers}

LifecycleVerbs == {"Create", "Update", "Delete"}
RequestTypes == LifecycleVerbs \cup {"Replace"}
ResourceTypes ==
    {spartaHelloWorldResourceType, "custom::sparta::helloworldresource", "Demo::Unknown"}

\* spartaAWSResource.CloudFormationLambdaEvent, the fields the handlers read
Events ==
    [RequestType : RequestTypes, ResourceType : ResourceTypes,
     ResourceProperties : AllProperties]
\* the events of the concurrent specification: every verb of the registered
\* type with properties that decode, fail to decode or lack Message, and one
\* event of an unregistered type
ConcurrentEvents ==
    {e \in Events :
        /\ e.RequestType \in LifecycleVerbs
        /\ \/ /\ e.ResourceType = spartaHelloWorldResourceType
              /\ e.ResourceProperties \in
                    {MalformedProperties,
                     ObjectProperties([tag |-> "absent", val |-> ""]),
                     ObjectProperties([tag |-> "string", val |-> "hi"])}
           \/ /\ e.ResourceType = "Demo::Unknown"
              /\ e.RequestType = "Create"
              /\ e.ResourceProperties = ObjectProperties([tag |-> "string", val |-> "hi"])}
NoEvent ==
    [RequestType |-> "", ResourceType |-> "",
     ResourceProperties |-> [shape |-> "", Message |-> [tag |-> "", val |-> ""]]]

NilPointerPanic == "runtime error: invalid memory address or nil pointer dereference"
NoOutcome == [kind |-> "", hasResults |-> FALSE, results |-> {}, err |-> ""]
Panic(msg) == [kind |-> "panic", hasResults |-> FALSE, results |-> {}, err |-> msg]
\* a Go return (results, err); hasResults is FALSE for a nil map, err "" is nil
Return(hasResults, results, err) ==
    [kind |-> "return", hasResults |-> hasResults, results |-> results, err |-> err]

NoResponse == [Status |-> "", Data |-> {}, Reason |-> ""]
Success(data) == [Status |-> "SUCCESS", Data |-> data, Reason |-> ""]
Failed(reason) == [Status |-> "FAILED", Data |-> {}, Reason |-> reason]

(***************************************************************************)
(* encoding/json                                                           *)
(***************************************************************************)
\* json.Unmarshal(event.ResourceProperties, &command): members the text does
\* not carry leave the struct's fields as they were; null sets the pointer to
\* nil; StringExpr.UnmarshalJSON takes a string or an intrinsic function.
Unmarshal(props, command) ==
    IF props.shape # "object"
    THEN [err |-> "unexpected end of JSON input", value |-> command]
    ELSE CASE props.Message.tag = "absent" -> [err |-> "", value |-> command]
           [] props.Message.tag = "null" ->
                [err |-> "", value |-> [command EXCEPT !.Message = NilExpr]]
           [] props.Message.tag = "string" ->
                [err |-> "",
                 value |-> [command EXCEPT !.Message = StringLit(props.Message.val)]]
           [] props.Message.tag = "func" ->
                [err |-> "",
                 value |-> [command EXCEPT !.Message = FuncExpr(props.Message.val)]]
           [] OTHER ->
                [err |-> "json: cannot unmarshal number into Go value of type string",
                 value |-> command]

(***************************************************************************)
(* The lifecycle methods of SpartaHelloWorldResource                       *)
(***************************************************************************)
\* variant: Create that returns the bare message
CreateNoPrefix(command, event) ==
    LET u == Unmarshal(event.ResourceProperties, command) IN
    IF u.err # "" THEN Return(FALSE, {}, u.err)
    ELSE IF u.value.Message.isNil THEN Panic(NilPointerPanic)
    ELSE Return(TRUE, {<<"Resource", u.value.Message.Literal>>}, "")

Create(command, event) ==
    LET u == Unmarshal(event.ResourceProperties, command) IN
    IF u.err # "" THEN Return(FALSE, {}, u.err)
    ELSE IF u.value.Message.isNil THEN Panic(NilPointerPanic)
    ELSE Return(TRUE,
                {<<"Resource", "Created message: " \o u.value.Message.Literal>>}, "")

\* variant: Update with Create's body
UpdateReturnsPayload(command, event) == Create(command, event)

Update(command, event) ==
    LET u == Unmarshal(event.ResourceProperties, command) IN
    IF u.err # "" THEN Return(FALSE, {}, u.err)
    ELSE IF u.value.Message.isNil THEN Panic(NilPointerPanic)
    ELSE Return(FALSE, {}, "")

Delete(command, event) ==
    LET u == Unmarshal(event.ResourceProperties, command) IN
    IF u.err # "" THEN Return(FALSE, {}, u.err)
    ELSE IF u.value.Message.isNil THEN Panic(NilPointerPanic)
    ELSE Return(FALSE, {}, "")

\* variant: pointer receivers, decoding into the caller's instance
ReceiverAfterPointer(instance, event) ==
    Unmarshal(event.ResourceProperties, instance).value

\* The methods have value receivers: json.Unmarshal writes into the method's
\* own copy of the receiver, and the instance the caller holds keeps its value.
ReceiverAfter(instance, event) == instance

(***************************************************************************)
(* The provider registered by init()                                       *)
(***************************************************************************)
\* variant: a factory that matches the type without regard to case
customResourceFactoryEqualFold(resourceType) ==
    resourceType \in {spartaHelloWorldResourceType, "custom::sparta::helloworldresource"}

\* TRUE when the factory returns &SpartaHelloWorldResource{}, FALSE for nil
customResourceFactory(resourceType) == resourceType = spartaHelloWorldResourceType

\* variant: a factory that hands out one shared instance
NewInstanceShared(h, i) == 1

\* &SpartaHelloWorldResource{}: a fresh allocation, an address no live instance
\* has (invocation i's own cell when it is free)
NewInstance(h, i) ==
    IF ~h[i].allocated THEN i ELSE CHOOSE a \in Addresses : ~h[a].allocated

(***************************************************************************)
(* State                                                                   *)
(***************************************************************************)
VARIABLES
    customResourceProviders,  \* gocf's provider list, filled by init()
    heap,                     \* the handler instances the factory has made
    pc,                       \* where each invocation stands
    event,                    \* the event each invocation was given
    handlerRef,               \* the address Decode got from the factory, 0 = nil
    calls,                    \* the handler methods each invocation has called
    outcome,                  \* what the handler method came back with
    resp,                     \* the Response produced
    sent,                     \* how often the Response was handed to Emit
    emitErr,                  \* whether delivery failed
    template,                 \* the CloudFormation template's resources
    dargs,                    \* the arguments the decorator is called with
    dpc,                      \* where the decorator stands
    customResourceName,       \* EnsureCustomResourceHandler's first result
    customResourceNameErr,    \* its error, "" for nil
    ret                       \* the error the decorator returned, "" for nil

dispatchVars ==
    <<customResourceProviders, heap, pc, event, handlerRef, calls, outcome,
      resp, sent, emitErr>>
decoratorVars == <<template, dargs, dpc, customResourceName, customResourceNameErr, ret>>
vars == <<dispatchVars, decoratorVars>>

FreeCell == [allocated |-> FALSE, obj |-> EmptyHandler]

InitDispatch ==
    /\ customResourceProviders = <<"customResourceFactory">>
    /\ heap = [a \in Addresses |-> FreeCell]
    /\ pc = [i \in Invocations |-> "idle"]
    /\ event = [i \in Invocations |-> NoEvent]
    /\ handlerRef = [i \in Invocations |-> 0]
    /\ calls = [i \in Invocations |-> <<>>]
    /\ outcome = [i \in Invocations |-> NoOutcome]
    /\ resp = [i \in Invocations |-> NoResponse]
    /\ sent = [i \in Invocations |-> 0]
    /\ emitErr = [i \in Invocations |-> FALSE]

(***************************************************************************)
(* The dispatch runtime                                                    *)
(***************************************************************************)
\* The hosting platform hands event e to invocation i; a finished invocation's
\* slot is reused and everything it held is dropped.
Receive(i, e) ==
    /\ pc[i] \in {"idle", "done"}
    /\ pc' = [pc EXCEPT ![i] = "decode"]
    /\ event' = [event EXCEPT ![i] = e]
    /\ handlerRef' = [handlerRef EXCEPT ![i] = 0]
    /\ heap' = IF handlerRef[i] # 0 THEN [heap EXCEPT ![handlerRef[i]] = FreeCell]
               ELSE heap
    /\ calls' = [calls EXCEPT ![i] = <<>>]
    /\ outcome' = [outcome EXCEPT ![i] = NoOutcome]
    /\ resp' = [resp EXCEPT ![i] = NoResponse]
    /\ sent' = [sent EXCEPT ![i] = 0]
    /\ emitErr' = [emitErr EXCEPT ![i] = FALSE]
    /\ UNCHANGED <<customResourceProviders, decoratorVars>>

\* Lookup: the first registered provider that knows the type
Lookup(resourceType) ==
    \E k \in 1..Len(customResourceProviders) :
        /\ customResourceProviders[k] = "customResourceFactory"
        /\ customResourceFactory(resourceType)

\* 4.2 / 4.3 step 1: look the type up and instantiate an empty handler
Decode(i) ==
    /\ pc[i] = "decode"
    /\ IF Lookup(event[i].ResourceType)
       THEN LET a == NewInstance(heap, i) IN
            /\ heap' = [heap EXCEPT ![a] = [allocated |-> TRUE, obj |-> EmptyHandler]]
            /\ handlerRef' = [handlerRef EXCEPT ![i] = a]
            /\ pc' = [pc EXCEPT ![i] = "select"]
            /\ UNCHANGED resp
       ELSE /\ resp' = [resp EXCEPT ![i] = Failed("NotFound: resource type is not registered")]
            /\ pc' = [pc EXCEPT ![i] = "emit"]
            /\ UNCHANGED <<heap, handlerRef>>
    /\ UNCHANGED <<customResourceProviders, event, calls, outcome, sent, emitErr,
                   decoratorVars>>

\* variant: a selection that lets every verb through
SelectFallsThrough(requestType) == TRUE

\* 4.3 step 2: the verbs that have a handler method
Selectable(requestType) == requestType \in LifecycleVerbs

Select(i) ==
    /\ pc[i] = "select"
    /\ IF Selectable(event[i].RequestType)
       THEN /\ pc' = [pc EXCEPT ![i] = "invoke"]
            /\ UNCHANGED resp
       ELSE /\ resp' = [resp EXCEPT ![i] = Failed("UnsupportedOperation")]
            /\ pc' = [pc EXCEPT ![i] = "emit"]
    /\ UNCHANGED <<customResourceProviders, heap, event, handlerRef, calls, outcome,
                   sent, emitErr, decoratorVars>>

\* the method the verb names, run on a copy of the instance; no method for
\* any other verb
Method(requestType, command, e) ==
    CASE requestType = "Create" -> Create(command, e)
      [] requestType = "Update" -> Update(command, e)
      [] requestType = "Delete" -> Delete(command, e)
      [] OTHER -> NoOutcome

\* 4.3 step 3: call the handler method
Invoke(i) ==
    /\ pc[i] = "invoke"
    /\ LET verb == event[i].RequestType
           a == handlerRef[i]
       IN /\ calls' = [calls EXCEPT ![i] =
                          IF verb \in LifecycleVerbs THEN Append(@, verb) ELSE @]
          /\ outcome' = [outcome EXCEPT ![i] = Method(verb, heap[a].obj, event[i])]
          /\ heap' = [heap EXCEPT ![a].obj = ReceiverAfter(@, event[i])]
    /\ pc' = [pc EXCEPT ![i] = "wrap"]
    /\ UNCHANGED <<customResourceProviders, event, handlerRef, resp, sent, emitErr,
                   decoratorVars>>

\* 4.3 steps 3 and 4: any failure of the handler becomes a failure Response with
\* the error's message as the reason; a success wraps the payload, a nil payload
\* as the empty mapping.
ResponseOf(o) ==
    IF o.kind = "return" /\ o.err = "" THEN Success(o.results) ELSE Failed(o.err)

Wrap(i) ==
    /\ pc[i] = "wrap"
    /\ resp' = [resp EXCEPT ![i] = ResponseOf(outcome[i])]
    /\ pc' = [pc EXCEPT ![i] = "emit"]
    /\ UNCHANGED <<customResourceProviders, heap, event, handlerRef, calls, outcome,
                   sent, emitErr, decoratorVars>>

\* variant: an emitter that sends again after a failed delivery
EmitRetries(delivered) == IF delivered THEN "done" ELSE "emit"

\* 4.4: a delivery failure is terminal for the invocation
AfterEmit(delivered) == "done"

\* 4.4: hand the Response to the callback destination; delivery may fail
Emit(i) ==
    /\ pc[i] = "emit"
    /\ \E delivered \in BOOLEAN :
          /\ sent' = [sent EXCEPT ![i] = @ + 1]
          /\ emitErr' = [emitErr EXCEPT ![i] = ~delivered]
          /\ pc' = [pc EXCEPT ![i] = AfterEmit(delivered)]
    /\ UNCHANGED <<customResourceProviders, heap, event, handlerRef, calls, outcome,
                   resp, decoratorVars>>

(***************************************************************************)
(* The service decorator of customResourceHooks                            *)
(***************************************************************************)
\* sparta.CloudFormationResourceName(prefix, parts...): a stable name made of
\* the prefix and a digest of the parts, here the parts themselves
CloudFormationResourceName(prefix, a, b) == prefix \o "-" \o a \o "-" \o b

\* gocf.GetAtt(resource, name) and gocf.String(s)
GetAtt(resource, name) == FuncExpr("Fn::GetAtt:" \o resource \o "." \o name)
String(s) == StringLit(s)

PlainResource(name, goType) ==
    [name |-> name, goType |-> goType, ServiceToken |-> NilExpr, Message |-> NilExpr]
\* template.AddResource(name, properties): Resources[name] = properties
AddResource(t, res) == {r \in t : r.name # res.name} \cup {res}

\* what EnsureCustomResourceHandler adds: the handler's IAM role and the Lambda
\* function behind the custom resource type
HandlerName(serviceName) ==
    CloudFormationResourceName(serviceName \o "-CFRes", spartaHelloWorldResourceType,
                               "CustomResource")
HandlerRole == PlainResource("CustomResourceIAMRole", "IAMRole")
HandlerFunction(serviceName) == PlainResource(HandlerName(serviceName), "LambdaFunction")
EnsureFailure == "Failed to ensure IAM Role for custom resource"

\* the template the framework has built when it runs the service decorators:
\* the application's Lambda and its role, and possibly the handler already
\* ensured for the same custom resource type
ServiceNames == {"MyCustomResourceStack"}
Buckets == {"bucketA", "bucketB"}
Keys == {"key1", "key2"}
BuiltResources(serviceName) ==
    {PlainResource("HelloWorld", "LambdaFunction"), PlainResource("HelloWorldRole", "IAMRole"),
     HandlerRole, HandlerFunction(serviceName)}

InitDecoratorWith(t, a) ==
    /\ template = t
    /\ dargs = a
    /\ dpc = "start"
    /\ customResourceName = ""
    /\ customResourceNameErr = ""
    /\ ret = ""

\* step 1: sparta.EnsureCustomResourceHandler(serviceName, type, ..., template,
\* S3Bucket, S3Key, logger).  It either fails, having added nothing or only the
\* role, or it returns the handler's name with role and function in the template.
DecoratorEnsure ==
    /\ dpc = "start"
    /\ \/ /\ customResourceNameErr' = EnsureFailure
          /\ customResourceName' = ""
          /\ template' \in {template, AddResource(template, HandlerRole)}
       \/ /\ customResourceNameErr' = ""
          /\ customResourceName' = HandlerName(dargs.serviceName)
          /\ template' = AddResource(AddResource(template, HandlerRole),
                                     HandlerFunction(dargs.serviceName))
    /\ dpc' = "ensured"
    /\ UNCHANGED <<dargs, ret, dispatchVars>>

\* variant: a decorator that does not look at the error
EnsureErrorIgnored(err) == FALSE

\* if customResourceNameErr != nil
EnsureFailed(err) == err # ""

DecoratorReturnError ==
    /\ dpc = "ensured"
    /\ EnsureFailed(customResourceNameErr)
    /\ ret' = customResourceNameErr
    /\ dpc' = "returned"
    /\ UNCHANGED <<template, dargs, customResourceName, customResourceNameErr,
                   dispatchVars>>

\* step 2: the request for the invocation of the Lambda resource
spartaCustomResource(name) ==
    [name |-> name,
     goType |-> "SpartaHelloWorldResource",
     ServiceToken |-> GetAtt(customResourceName, "Arn"),
     Message |-> String("Custom resource activated!")]

DecoratorAddInvocation ==
    /\ dpc = "ensured"
    /\ ~EnsureFailed(customResourceNameErr)
    /\ LET resourceInvokerName ==
              CloudFormationResourceName("SpartaCustomResource", dargs.S3Bucket,
                                         dargs.S3Key)
       IN template' = AddResource(template, spartaCustomResource(resourceInvokerName))
    /\ ret' = ""
    /\ dpc' = "returned"
    /\ UNCHANGED <<dargs, customResourceName, customResourceNameErr, dispatchVars>>

Init ==
    /\ InitDispatch
    /\ InitDecoratorWith({},
                         [serviceName |-> "MyCustomResourceStack",
                          S3Bucket |-> "bucketA", S3Key |-> "key1"])

\* one invocation at a time, over every event
Next ==
    \/ \E e \in Events : Receive(1, e)
    \/ Decode(1)
    \/ Select(1)
    \/ Invoke(1)
    \/ Wrap(1)
    \/ Emit(1)

Spec == Init /\ [][Next]_vars

\* any number of invocations in flight, interleaved step by step
NextConcurrent ==
    \E i \in Invocations :
        \/ \E e \in ConcurrentEvents : Receive(i, e)
        \/ Decode(i)
        \/ Select(i)
        \/ Invoke(i)
        \/ Wrap(i)
        \/ Emit(i)

SpecConcurrent == Init /\ [][NextConcurrent]_vars

\* the framework runs the one service decorator of hooks.ServiceDecorators
InitDecorator ==
    /\ InitDispatch
    /\ \E sn \in ServiceNames, b \in Buckets, k \in Keys :
          \E t \in SUBSET BuiltResources(sn) :
             InitDecoratorWith(t, [serviceName |-> sn, S3Bucket |-> b, S3Key |-> k])

NextDecorator ==
    \/ DecoratorEnsure
    \/ DecoratorReturnError
    \/ DecoratorAddInvocation

SpecDecorator == InitDecorator /\ [][NextDecorator]_vars

(***************************************************************************)
(* Properties of the dispatch of one event                                 *)
(***************************************************************************)
Done(i) == pc[i] = "done"
Registered(e) == e.ResourceType = spartaHelloWorldResourceType
\* the properties carry a Message the typed request can hold
WellFormed(props) == props.shape = "object" /\ props.Message.tag \in {"string", "func"}
NotFoundReason == "NotFound: resource type is not registered"
\* the reason a decode step that validates required fields gives for Message
MentionsMessage(reason) == reason \in {"DecodeError: missing required field Message"}

\* C1: a Create event of the registered type whose properties carry a string
\* Message m ends in SUCCESS with Data exactly {"Resource": "Created message: " + m}.
C1_CreateEchoesMessage ==
    \A i \in Invocations :
        (/\ Done(i)
         /\ event[i].RequestType = "Create"
         /\ Registered(event[i])
         /\ event[i].ResourceProperties.shape = "object"
         /\ event[i].ResourceProperties.Message.tag = "string")
        => resp[i] =
             Success({<<"Resource",
                        "Created message: " \o event[i].ResourceProperties.Message.val>>})

C1_Witness ==
    \E i \in Invocations :
        /\ Done(i)
        /\ event[i].RequestType = "Create"
        /\ Registered(event[i])
        /\ event[i].ResourceProperties = ObjectProperties([tag |-> "string", val |-> "hi"])
        /\ calls[i] = <<"Create">>
        /\ resp[i] = Success({<<"Resource", "Created message: hi">>})

\* C2: a Create, Update or Delete event of the registered type whose properties
\* lack Message ends in FAILED with a Reason that mentions "Message", and the
\* handler does not fault.
C2_MissingMessageFails ==
    \A i \in Invocations :
        (/\ Done(i)
         /\ event[i].RequestType \in LifecycleVerbs
         /\ Registered(event[i])
         /\ event[i].ResourceProperties.shape = "object"
         /\ event[i].ResourceProperties.Message.tag = "absent")
        => /\ outcome[i].kind # "panic"
           /\ resp[i].Status = "FAILED"
           /\ MentionsMessage(resp[i].Reason)

\* C3: for a ResourceType that is not exactly the registered one, the lookup
\* finds nothing, no handler is instantiated, no handler method is ever called,
\* and the dispatch ends in FAILED with the not-found reason.
C3_UnregisteredTypeFails ==
    \A i \in Invocations :
        (pc[i] # "idle" /\ ~Registered(event[i]))
        => /\ ~Lookup(event[i].ResourceType)
           /\ handlerRef[i] = 0
           /\ calls[i] = <<>>
           /\ pc[i] \in {"decode", "emit", "done"}
           /\ Done(i) => resp[i] = Failed(NotFoundReason)

C3_Witness ==
    \E i \in Invocations :
        /\ Done(i)
        /\ event[i].ResourceType = "custom::sparta::helloworldresource"
        /\ event[i].RequestType = "Create"
        /\ WellFormed(event[i].ResourceProperties)
        /\ resp[i] = Failed(NotFoundReason)
        /\ calls[i] = <<>>

\* C4 as stated: every event whose RequestType is none of Create, Update, Delete
\* ends in FAILED with UnsupportedOperation, no handler method called.
C4_UnknownVerbUnsupported ==
    \A i \in Invocations :
        (Done(i) /\ event[i].RequestType \notin LifecycleVerbs)
        => /\ resp[i] = Failed("UnsupportedOperation")
           /\ calls[i] = <<>>

\* C4 amended: every event whose RequestType is none of Create, Update, Delete
\* ends in FAILED with no handler method called; the failure is
\* UnsupportedOperation when the ResourceType is registered (an unregistered
\* type has already failed in Decode with not-found).
C4_UnknownVerbFails ==
    \A i \in Invocations :
        (pc[i] # "idle" /\ event[i].RequestType \notin LifecycleVerbs)
        => /\ calls[i] = <<>>
           /\ pc[i] \notin {"invoke", "wrap"}
           /\ Done(i) => /\ resp[i].Status = "FAILED"
                         /\ Registered(event[i])
                               => resp[i] = Failed("UnsupportedOperation")
                         /\ ~Registered(event[i]) => resp[i] = Failed(NotFoundReason)

C4_Witness ==
    \E i \in Invocations :
        /\ Done(i)
        /\ event[i].RequestType = "Replace"
        /\ Registered(event[i])
        /\ handlerRef[i] # 0
        /\ resp[i] = Failed("UnsupportedOperation")
        /\ calls[i] = <<>>

\* C5: every failure inside a handler method comes back as an error value with
\* no payload (never a fault, never payload and error together), and every
\* dispatch ends in exactly one of SUCCESS-with-data or FAILED-with-reason.
C5_FailuresAreErrorValues ==
    \A i \in Invocations :
        /\ outcome[i].kind # ""
             => /\ outcome[i].kind = "return"
                /\ ~(outcome[i].hasResults /\ outcome[i].err # "")
        /\ Done(i)
             => \/ resp[i].Status = "SUCCESS" /\ resp[i].Reason = ""
                \/ resp[i].Status = "FAILED" /\ resp[i].Data = {} /\ resp[i].Reason # ""

\* C6: within one invocation the Response is handed to Emit at most once,
\* whatever failed before or during the send.
C6_EmitAtMostOnce ==
    \A i \in Invocations :
        /\ sent[i] <= 1
        /\ Done(i) => sent[i] = 1
        /\ pc[i] \in {"decode", "select", "invoke", "wrap", "emit"} => sent[i] = 0

C6_Witness ==
    \E i \in Invocations :
        /\ Done(i)
        /\ resp[i].Status = "FAILED"
        /\ emitErr[i]
        /\ sent[i] = 1

\* C7: an Update or Delete event of the registered type with well-formed
\* properties: the handler returns no payload and no error, and the dispatch
\* ends in SUCCESS with the empty mapping as Data.
C7_UpdateDeleteEmptyData ==
    \A i \in Invocations :
        (/\ Done(i)
         /\ event[i].RequestType \in {"Update", "Delete"}
         /\ Registered(event[i])
         /\ WellFormed(event[i].ResourceProperties))
        => /\ outcome[i] = Return(FALSE, {}, "")
           /\ resp[i] = Success({})

C7_Witness ==
    \E i \in Invocations :
        /\ Done(i)
        /\ event[i].RequestType = "Delete"
        /\ Registered(event[i])
        /\ event[i].ResourceProperties = ObjectProperties([tag |-> "func", val |-> "Ref"])
        /\ calls[i] = <<"Delete">>
        /\ resp[i] = Success({})

(***************************************************************************)
(* Properties of concurrent and repeated dispatch                          *)
(***************************************************************************)
\* the Response to event e dispatched on its own, with a fresh empty handler
DispatchAlone(e) ==
    IF ~Registered(e) THEN Failed(NotFoundReason)
    ELSE IF e.RequestType \notin LifecycleVerbs THEN Failed("UnsupportedOperation")
    ELSE ResponseOf(Method(e.RequestType, EmptyHandler, e))

\* C8: under any interleaving, each finished invocation's Response is the one
\* its event gets when dispatched alone; the provider list never changes; two
\* invocations never hold the same handler instance; and every instance the
\* factory made is still empty (the methods decode into their own copy).
C8_NoCrossInvocationState ==
    /\ customResourceProviders = <<"customResourceFactory">>
    /\ \A i \in Invocations : Done(i) => resp[i] = DispatchAlone(event[i])
    /\ \A i, j \in Invocations :
          (i # j /\ handlerRef[i] # 0) => handlerRef[i] # handlerRef[j]
    /\ \A a \in Addresses : heap[a].obj = EmptyHandler

C8_Witness ==
    \E i, j \in Invocations :
        /\ i # j
        /\ pc[i] = "wrap" /\ pc[j] = "wrap"
        /\ Registered(event[i]) /\ Registered(event[j])
        /\ event[i].ResourceProperties = ObjectProperties([tag |-> "string", val |-> "hi"])
        /\ event[j].ResourceProperties = ObjectProperties([tag |-> "absent", val |-> ""])
        /\ outcome[i].kind = "return"
        /\ outcome[j].kind = "panic"

\* C9: Update and Delete are idempotent under redelivery: every dispatch of the
\* same Update or Delete event ends in the same Response, and running the
\* handler method changes neither a handler instance nor the provider list, so
\* any number of deliveries leaves the state one delivery leaves.
C9_UpdateDeleteIdempotent ==
    /\ [](\A i, j \in Invocations :
            (/\ Done(i) /\ Done(j)
             /\ event[i] = event[j]
             /\ event[i].RequestType \in {"Update", "Delete"})
            => resp[i] = resp[j])
    /\ [][\A i \in Invocations :
            (/\ pc[i] = "invoke" /\ pc'[i] = "wrap"
             /\ event[i].RequestType \in {"Update", "Delete"})
            => /\ \A a \in Addresses : heap'[a].obj = heap[a].obj
               /\ customResourceProviders' = customResourceProviders]_vars

C9_Witness ==
    \E i, j \in Invocations :
        /\ i # j
        /\ Done(i) /\ Done(j)
        /\ event[i] = event[j]
        /\ event[i].RequestType = "Update"
        /\ Registered(event[i])
        /\ event[i].ResourceProperties = ObjectProperties([tag |-> "string", val |-> "hi"])
        /\ calls[i] = <<"Update">> /\ calls[j] = <<"Update">>
        /\ resp[i] = Success({}) /\ resp[j] = Success({})

(***************************************************************************)
(* Properties of the service decorator                                     *)
(***************************************************************************)
InvocationResources(t) == {r \in t : r.goType = "SpartaHelloWorldResource"}

\* C10: the invocation resource enters the template only after the handler has
\* been ensured.  If EnsureCustomResourceHandler failed, the decorator returns
\* that error and the template holds no invocation resource; if it succeeded,
\* the decorator returns nil having added exactly one resource, whose
\* ServiceToken is the Arn attribute of the ensured handler and whose Message
\* is "Custom resource activated!".
C10_InvocationOnlyAfterEnsure ==
    /\ [](/\ InvocationResources(template) # {}
             => /\ dpc = "returned"
                /\ customResourceNameErr = ""
                /\ HandlerFunction(dargs.serviceName) \in template
          /\ dpc = "returned"
             => IF customResourceNameErr # ""
                THEN ret = customResourceNameErr /\ InvocationResources(template) = {}
                ELSE /\ ret = ""
                     /\ Cardinality(InvocationResources(template)) = 1
                     /\ \A r \in InvocationResources(template) :
                           /\ r.ServiceToken = GetAtt(HandlerName(dargs.serviceName), "Arn")
                           /\ r.Message = StringLit("Custom resource activated!"))
    /\ [][(dpc = "ensured" /\ dpc' = "returned")
            => IF customResourceNameErr # ""
               THEN template' = template
               ELSE /\ template \subseteq template'
                    /\ Cardinality(template' \ template) = 1
                    /\ template' \ template = InvocationResources(template')]_vars

C10_Witness ==
    /\ dpc = "returned"
    /\ customResourceNameErr = ""
    /\ ret = ""
    /\ dargs.S3Bucket = "bucketB"
    /\ \E r \in template :
          /\ r.name = "SpartaCustomResource-bucketB-key2"
          /\ r.goType = "SpartaHelloWorldResource"
          /\ r.ServiceToken.Func =
                "Fn::GetAtt:MyCustomResourceStack-CFRes-Custom::sparta::HelloWorldResource-CustomResource.Arn"
          /\ r.Message.Literal = "Custom resource activated!"
    /\ Cardinality(template) = 5

====
